---------------------------- MODULE Spec2Model ----------------------------
(***************************************************************************)
(* A model of contfrac.py: continued_fraction (with its two generator      *)
(* bodies), evaluate, convergents and convergent.                          *)
(*                                                                         *)
(* The two generator functions are modelled as Python generators are run:  *)
(* a generator object holds the locals of the function, and every next()   *)
(* of the consumer runs the loop body once, up to the yield, or ends the   *)
(* generator (StopIteration), or propagates an exception.  evaluate and    *)
(* the dispatch of continued_fraction are plain functions and are          *)
(* operators.                                                              *)
(*                                                                         *)
(* Numbers.  Python integers are unbounded and are the integers here.      *)
(* evaluate divides with "/" : its values are modelled as exact rationals  *)
(* (records [num, den] in lowest terms with den > 0), that is, the float   *)
(* rounding of "/" is not modelled.  A float input is a rational whose     *)
(* fractional part is 0, 1/4 or 1/2 in magnitude: on these values every    *)
(* float operation of __float_cont_frac (round to 10 digits, subtraction,  *)
(* 1.0 / fractional_part) is exact, so the model is the float computation. *)
(***************************************************************************)
EXTENDS Integers, Sequences, FiniteSets, TLC

\* ------------------------------------------------------------------ bounds
\* Numerators and denominators of the inputs range over -MaxNum..MaxNum.
MaxNum == 7
\* maxlen ranges over 0..MaxLen, max_grade and grade over -1..MaxLen-1.
MaxLen == 5
\* Hand-built sequences given to evaluate: coefficients in -MaxCoef..MaxCoef,
\* at most MaxSeq of them.
MaxCoef == 2
MaxSeq == 4
\* Float inputs have an integer part in -MaxFloat..MaxFloat.
MaxFloat == 2

\* ------------------------------------------------------- exact arithmetic
Abs(a) == IF a < 0 THEN -a ELSE a

RECURSIVE GCD(_, _)
GCD(a, b) == IF b = 0 THEN Abs(a) ELSE GCD(b, Abs(a) % Abs(b))

\* The rational n/d (d # 0) in lowest terms with a positive denominator: what
\* fractions.Fraction(n, d) holds in .numerator and .denominator.
Fraction(n, d) ==
    LET g == GCD(n, d)
        s == IF d < 0 THEN -1 ELSE 1
    IN  [num |-> s * (n \div g), den |-> s * (d \div g)]

RatOfInt(i) == [num |-> i, den |-> 1]

RatAdd(r, s) == Fraction(r.num * s.den + s.num * r.den, r.den * s.den)

RatSub(r, s) == Fraction(r.num * s.den - s.num * r.den, r.den * s.den)

\* 1 / r, for r # 0.
RatInv(r) == Fraction(r.den, r.num)

\* Python's  a // b  on integers (b # 0): the floor of the quotient, whatever
\* the signs.  \div is used with a positive divisor only.
\* (Faulty variant: the quotient truncated toward zero.)
FloorDivBug(a, b) ==
    LET q == Abs(a) \div Abs(b)
    IN  IF (a < 0) = (b < 0) THEN q ELSE -q

FloorDiv(a, b) == IF b > 0 THEN a \div b ELSE (-a) \div (-b)

\* int(r) of a float: truncation toward zero.
IntOf(r) == IF r.num >= 0 THEN r.num \div r.den ELSE -((-r.num) \div r.den)

\* round(r, 10) of a float.  Every float of the model is a multiple of 1/4 and
\* so has at most two decimal digits: rounding it to 10 digits returns it.
Round10(r) == r

\* abs(r) <= abs_tol, with abs_tol = 10**-10.  The rationals of the model have
\* denominators far below 10**10, and such a rational is within 10**-10 of 0
\* only when it is 0.
WithinAbsTol(r) == r.num = 0

\* ------------------------------------------------------------------ inputs
Nums == (-MaxNum)..MaxNum

IntInputs == [kind : {"int"}, num : Nums, den : {1}]

\* A tuple (numerator, denominator); nothing in the code keeps the second
\* component away from 0.
TupleInputs == [kind : {"tuple"}, num : Nums, den : Nums]

\* A fractions.Fraction: always in lowest terms with a positive denominator.
FractionInputs ==
    {[kind |-> "Fraction", num |-> n, den |-> d] :
        <<n, d>> \in {p \in Nums \X (1..MaxNum) : GCD(p[1], p[2]) = 1}}

FloatInputs ==
    {[kind |-> "float", num |-> Fraction(s * (4 * i + f), 4).num,
                        den |-> Fraction(s * (4 * i + f), 4).den] :
        <<s, i, f>> \in {-1, 1} \X (0..MaxFloat) \X {0, 1, 2}}

\* Anything else, such as None or a string.
OtherInputs == {[kind |-> "str", num |-> 0, den |-> 0]}

Inputs == IntInputs \cup TupleInputs \cup FractionInputs \cup FloatInputs
            \cup OtherInputs

EvalInputs == UNION {[1..n -> (-MaxCoef)..MaxCoef] : n \in 0..MaxSeq}

\* --------------------------------------------------------------- generators
None == <<>>

Zero == RatOfInt(0)

NoGen == [fn |-> "none", num |-> 0, den |-> 0, real_number |-> Zero,
          fractional_part |-> Zero, amount |-> 0, max_amount |-> 0]

\* The generator object of __int_cont_frac(num, den, max_amount), before its
\* first next() (amount = 0 is its first statement).
int_cont_frac(num, den, max_amount) ==
    [fn |-> "int_cont_frac", num |-> num, den |-> den, real_number |-> Zero,
     fractional_part |-> Zero, amount |-> 0, max_amount |-> max_amount]

\* The generator object of __float_cont_frac(real_number, max_amount).
float_cont_frac(real_number, max_amount) ==
    [fn |-> "float_cont_frac", num |-> 0, den |-> 0,
     real_number |-> real_number, fractional_part |-> RatOfInt(42),
     amount |-> 0, max_amount |-> max_amount]

\* continued_fraction(x, maxlen): the exception it raises, or the generator
\* it returns.
\* (Faulty variant: numerator and denominator of a Fraction exchanged.)
continued_fractionBug(x, maxlen) ==
    IF maxlen <= 0 THEN [exc |-> "ValueError", gen |-> NoGen]
    ELSE IF x.kind = "int"
        THEN [exc |-> "", gen |-> int_cont_frac(x.num, 1, 1)]
    ELSE IF x.kind = "float"
        THEN [exc |-> "", gen |-> float_cont_frac(Fraction(x.num, x.den), maxlen)]
    ELSE IF x.kind = "Fraction"
        THEN [exc |-> "", gen |-> int_cont_frac(x.den, x.num, maxlen)]
    ELSE IF x.kind = "tuple"
        THEN [exc |-> "", gen |-> int_cont_frac(x.num, x.den, maxlen)]
    ELSE [exc |-> "TypeError", gen |-> NoGen]

continued_fraction(x, maxlen) ==
    IF maxlen <= 0 THEN [exc |-> "ValueError", gen |-> NoGen]
    ELSE IF x.kind = "int"
        THEN [exc |-> "", gen |-> int_cont_frac(x.num, 1, 1)]
    ELSE IF x.kind = "float"
        THEN [exc |-> "", gen |-> float_cont_frac(Fraction(x.num, x.den), maxlen)]
    ELSE IF x.kind = "Fraction"
        THEN [exc |-> "", gen |-> int_cont_frac(x.num, x.den, maxlen)]
    ELSE IF x.kind = "tuple"
        THEN [exc |-> "", gen |-> int_cont_frac(x.num, x.den, maxlen)]
    ELSE [exc |-> "TypeError", gen |-> NoGen]

\* The loop test of __int_cont_frac.
\* (Faulty variant: <= for <.)
IntLoopTestBug(g) == g.den # 0 /\ g.amount <= g.max_amount

IntLoopTest(g) == g.den # 0 /\ g.amount < g.max_amount

\* One pass of the loop body of __int_cont_frac, up to the yield.
\* (Faulty variant: num -= integer_part.)
IntLoopBodyBug(g) ==
    LET integer_part == FloorDiv(g.num, g.den)
        num1 == g.num - integer_part
    IN  [gen |-> [g EXCEPT !.num = g.den, !.den = num1,
                           !.amount = g.amount + 1],
         value |-> integer_part]

IntLoopBody(g) ==
    LET integer_part == FloorDiv(g.num, g.den)
        num1 == g.num - integer_part * g.den
    IN  [gen |-> [g EXCEPT !.num = g.den, !.den = num1,
                           !.amount = g.amount + 1],
         value |-> integer_part]

\* One next() of an __int_cont_frac generator.
IntNext(g) ==
    IF IntLoopTest(g)
    THEN [how |-> "yield"] @@ IntLoopBody(g)
    ELSE [how |-> "StopIteration", gen |-> g, value |-> 0]

\* One next() of a __float_cont_frac generator.  1.0 / fractional_part raises
\* ZeroDivisionError when fractional_part is 0.0, before the yield.
FloatNext(g) ==
    IF ~WithinAbsTol(g.fractional_part) /\ g.amount < g.max_amount
    THEN LET integer_part == IntOf(Round10(g.real_number))
             fractional_part == RatSub(g.real_number, RatOfInt(integer_part))
         IN  IF fractional_part.num = 0
             THEN [how |-> "ZeroDivisionError",
                   gen |-> [g EXCEPT !.fractional_part = fractional_part],
                   value |-> 0]
             ELSE [how |-> "yield",
                   gen |-> [g EXCEPT !.fractional_part = fractional_part,
                                     !.real_number = RatInv(fractional_part),
                                     !.amount = g.amount + 1],
                   value |-> integer_part]
    ELSE [how |-> "StopIteration", gen |-> g, value |-> 0]

GenNext(g) == IF g.fn = "int_cont_frac" THEN IntNext(g) ELSE FloatNext(g)

\* ------------------------------------------------------------------ evaluate
Reversed(s) == [i \in 1..Len(s) |-> s[Len(s) + 1 - i]]

\* The loop of evaluate over the coefficients still to come, `fraction` being
\* the accumulator: the final accumulator, or the ZeroDivisionError of
\* 1 / (coefficient + fraction).
RECURSIVE EvalLoop(_, _)
EvalLoop(rest, fraction) ==
    IF rest = <<>> THEN [exc |-> "", val |-> fraction]
    ELSE LET sum == RatAdd(RatOfInt(Head(rest)), fraction)
         IN  IF sum.num = 0 THEN [exc |-> "ZeroDivisionError", val |-> Zero]
             ELSE EvalLoop(Tail(rest), RatInv(sum))

\* (Faulty variant of evaluate: the coefficients are not reversed.)
evaluateBug(cont_frac) ==
    IF Len(cont_frac) = 0 THEN [exc |-> "", val |-> Zero]
    ELSE LET r == EvalLoop(Tail(cont_frac), Zero)
         IN  IF r.exc # "" THEN r
             ELSE [exc |-> "", val |-> RatAdd(RatOfInt(cont_frac[1]), r.val)]

\* evaluate(cont_frac): the exception it raises, or the value it returns.
evaluate(cont_frac) ==
    IF Len(cont_frac) = 0 THEN [exc |-> "", val |-> Zero]
    ELSE LET r == EvalLoop(Reversed(Tail(cont_frac)), Zero)
         IN  IF r.exc # "" THEN r
             ELSE [exc |-> "", val |-> RatAdd(RatOfInt(cont_frac[1]), r.val)]

\* --------------------------------------------------------------- convergents
\* The maxlen convergents passes to continued_fraction.
\* (Faulty variant: max_grade.)
ConvergentsMaxlenBug(max_grade) == max_grade

ConvergentsMaxlen(max_grade) == max_grade + 1

\* The locals of convergents before the loop.
\* (Faulty variant: the two numerators exchanged.)
ConvergentsInitBug ==
    [numerator_2_ago |-> 1, numerator_1_ago |-> 0,
     denominator_2_ago |-> 1, denominator_1_ago |-> 0]

ConvergentsInit ==
    [numerator_2_ago |-> 0, numerator_1_ago |-> 1,
     denominator_2_ago |-> 1, denominator_1_ago |-> 0]

\* One pass of the loop body of convergents.
\* (Faulty variant: the denominator adds numerator_2_ago.)
ConvergentsBodyBug(c, coefficient) ==
    LET numerator == coefficient * c.numerator_1_ago + c.numerator_2_ago
        denominator == coefficient * c.denominator_1_ago + c.numerator_2_ago
    IN  [numerator_2_ago |-> c.numerator_1_ago, numerator_1_ago |-> numerator,
         denominator_2_ago |-> c.denominator_1_ago,
         denominator_1_ago |-> denominator]

ConvergentsBody(c, coefficient) ==
    LET numerator == coefficient * c.numerator_1_ago + c.numerator_2_ago
        denominator == coefficient * c.denominator_1_ago + c.denominator_2_ago
    IN  [numerator_2_ago |-> c.numerator_1_ago, numerator_1_ago |-> numerator,
         denominator_2_ago |-> c.denominator_1_ago,
         denominator_1_ago |-> denominator]

\* ------------------------------------------------------------------- state
VARIABLES
    call,       \* the call in progress: "idle", "continued_fraction",
                \* "evaluate", "roundtrip", "convergents" or "convergent"
    outcome,    \* "running", "returned" or the exception that ended the call
    x,          \* the numeric input of the call
    limit,      \* the call's maxlen (continued_fraction), max_grade
                \* (convergents) or grade (convergent)
    gen,        \* the continued_fraction generator being consumed
    cont_frac,  \* the coefficients yielded so far, or evaluate's argument
    conv,       \* the locals of convergents
    pairs,      \* the pairs convergents has yielded so far
    element,    \* the local `element` of convergent
    result,     \* what evaluate returned or raised
    first       \* in a round trip: the first run's input, list and generator

vars == <<call, outcome, x, limit, gen, cont_frac, conv, pairs, element,
          result, first>>

NoResult == [exc |-> "none", val |-> Zero]

NoFirst == [x |-> [kind |-> "str", num |-> 0, den |-> 0], cont_frac |-> <<>>,
            gen |-> NoGen]

Init ==
    /\ call = "idle"
    /\ outcome = "returned"
    /\ x = [kind |-> "str", num |-> 0, den |-> 0]
    /\ limit = 0
    /\ gen = NoGen
    /\ cont_frac = <<>>
    /\ conv = ConvergentsInit
    /\ pairs = <<>>
    /\ element = None
    /\ result = NoResult
    /\ first = NoFirst

\* list(continued_fraction(x0, n)) begins: continued_fraction raises or
\* returns the generator list() will drain.
ContinuedFractionCall(x0, n) ==
    /\ call = "idle"
    /\ LET r == continued_fraction(x0, n)
       IN  /\ gen' = r.gen
           /\ outcome' = IF r.exc = "" THEN "running" ELSE r.exc
    /\ call' = "continued_fraction"
    /\ x' = x0
    /\ limit' = n
    /\ UNCHANGED <<cont_frac, conv, pairs, element, result, first>>

\* list() takes the next coefficient of the generator, or finishes.
ListNext ==
    /\ call \in {"continued_fraction", "roundtrip"}
    /\ outcome = "running"
    /\ LET r == GenNext(gen)
       IN  /\ gen' = r.gen
           /\ cont_frac' = IF r.how = "yield" THEN Append(cont_frac, r.value)
                           ELSE cont_frac
           /\ outcome' = IF r.how = "yield" THEN "running"
                         ELSE IF r.how = "StopIteration" THEN "returned"
                         ELSE r.how
    /\ UNCHANGED <<call, x, limit, conv, pairs, element, result, first>>

\* evaluate(seq) on a hand-built list.
EvaluateCall(seq) ==
    /\ call = "idle"
    /\ call' = "evaluate"
    /\ cont_frac' = seq
    /\ result' = evaluate(seq)
    /\ outcome' = IF result'.exc = "" THEN "returned" ELSE result'.exc
    /\ UNCHANGED <<x, limit, gen, conv, pairs, element, first>>

\* evaluate(result) on the list a drained continued_fraction generator gave.
EvaluateGenerated ==
    /\ call = "continued_fraction"
    /\ outcome = "returned"
    /\ result = NoResult
    /\ result' = evaluate(cont_frac)
    /\ outcome' = IF result'.exc = "" THEN "returned" ELSE result'.exc
    /\ UNCHANGED <<call, x, limit, gen, cont_frac, conv, pairs, element, first>>

\* list(continued_fraction(Fraction(value), maxlen=len(seq))) begins, value
\* being what evaluate returned for seq.
RoundTripCall ==
    /\ call = "continued_fraction"
    /\ outcome = "returned"
    /\ result.exc = ""
    /\ first' = [x |-> x, cont_frac |-> cont_frac, gen |-> gen]
    /\ call' = "roundtrip"
    /\ x' = [kind |-> "Fraction", num |-> result.val.num, den |-> result.val.den]
    /\ limit' = Len(cont_frac)
    /\ LET r == continued_fraction(x', limit')
       IN  /\ gen' = r.gen
           /\ outcome' = IF r.exc = "" THEN "running" ELSE r.exc
    /\ cont_frac' = <<>>
    /\ UNCHANGED <<conv, pairs, element, result>>

\* convergents(x0, g) is created and its body runs to the loop header, where
\* continued_fraction(x, maxlen=max_grade + 1) raises or returns the generator
\* the loop draws from.  which = "convergents" for list(convergents(x0, g)),
\* "convergent" for convergent(x0, g), whose loop drains the same generator.
ConvergentsCall(which, x0, g) ==
    /\ call = "idle"
    /\ call' = which
    /\ x' = x0
    /\ limit' = g
    /\ conv' = ConvergentsInit
    /\ element' = None
    /\ LET r == continued_fraction(x0, ConvergentsMaxlen(g))
       IN  /\ gen' = r.gen
           /\ outcome' = IF r.exc = "" THEN "running" ELSE r.exc
    /\ UNCHANGED <<cont_frac, pairs, result, first>>

\* The consumer takes the next pair of convergents: the loop draws a
\* coefficient and yields a pair, or the generators end.  In convergent the
\* pair is assigned to `element`, which is returned when the loop ends.
ConvergentsNext ==
    /\ call \in {"convergents", "convergent"}
    /\ outcome = "running"
    /\ LET r == GenNext(gen)
           c == ConvergentsBody(conv, r.value)
       IN  /\ gen' = r.gen
           /\ IF r.how = "yield"
              THEN /\ conv' = c
                   /\ cont_frac' = Append(cont_frac, r.value)
                   /\ pairs' = Append(pairs,
                                 <<c.numerator_1_ago, c.denominator_1_ago>>)
                   /\ element' = IF call = "convergent"
                                 THEN <<c.numerator_1_ago, c.denominator_1_ago>>
                                 ELSE element
                   /\ outcome' = "running"
              ELSE /\ UNCHANGED <<conv, cont_frac, pairs, element>>
                   /\ outcome' = IF r.how = "StopIteration" THEN "returned"
                                 ELSE r.how
    /\ UNCHANGED <<call, x, limit, result, first>>

Next ==
    \/ \E x0 \in Inputs, n \in 0..MaxLen : ContinuedFractionCall(x0, n)
    \/ ListNext
    \/ \E seq \in EvalInputs : EvaluateCall(seq)
    \/ EvaluateGenerated
    \/ RoundTripCall
    \/ \E which \in {"convergents", "convergent"}, x0 \in Inputs,
          g \in (-1)..(MaxLen - 1) : ConvergentsCall(which, x0, g)
    \/ ConvergentsNext

Spec == Init /\ [][Next]_vars

\* list() and the for loops call next() until the generator ends or raises:
\* a consumer that can take a step takes it.
FairSpec == Spec /\ WF_vars(ListNext) /\ WF_vars(ConvergentsNext)


\* ------------------------------------------------------------------ claims
\* The input is an exact rational p/q with q # 0: an integer, a Fraction or a
\* pair of integers.
Exact(v) == v.kind \in {"int", "Fraction", "tuple"} /\ v.den # 0

\* a is the floor of p/q (q # 0), stated without division.
IsFloor(a, p, q) ==
    IF q > 0 THEN a * q <= p /\ p < (a + 1) * q
    ELSE a * q >= p /\ p > (a + 1) * q

\* The rational r equals n/d (d # 0).
RatEq(r, n, d) == r.den # 0 /\ r.num * d = n * r.den

\* The generator ran to its natural end: the running denominator is 0.
NaturalEnd(g) == g.fn = "int_cont_frac" /\ g.den = 0

\* The call is one of convergents or convergent.
InConvergents == call \in {"convergents", "convergent"}

\* C1: when continued_fraction of an exact rational p/q has been drained and
\* ended naturally (denominator 0, so maxlen was at least the natural length),
\* evaluate of the list returns p/q exactly and raises nothing, whatever the
\* maxlen was.
C1_EvaluateReproducesInput ==
    (/\ call = "continued_fraction"
     /\ result # NoResult
     /\ Exact(x)
     /\ NaturalEnd(gen))
        => /\ result.exc = ""
           /\ RatEq(result.val, x.num, x.den)

C1_Witness ==
    /\ call = "continued_fraction"
    /\ result.exc = ""
    /\ x.kind = "tuple" /\ x.den < 0 /\ x.num > 0
    /\ NaturalEnd(gen)
    /\ Len(cont_frac) >= 3
    /\ limit > Len(cont_frac)
    /\ RatEq(result.val, x.num, x.den)

\* C2 (as claimed): convergent(x, grade) that returns although grade is at
\* least the number of coefficients produced returns the sentinel None, never
\* an ordinary pair.
C2_ReturnsNoPairBeyondLastGrade ==
    (/\ call = "convergent"
     /\ outcome = "returned"
     /\ limit >= Len(cont_frac))
        => element = None

\* C3 (as claimed): continued_fraction(x, maxlen=1) of a recognized input
\* with a non-zero denominator ends without raising, having yielded exactly
\* one coefficient, the floor of x.
C3_OneCoefficientIsFloor ==
    (/\ call = "continued_fraction"
     /\ limit = 1
     /\ x.kind # "str" /\ x.den # 0
     /\ outcome # "running")
        => /\ outcome = "returned"
           /\ Len(cont_frac) = 1
           /\ IsFloor(cont_frac[1], x.num, x.den)

\* C4: for an exact rational p/q the first coefficient produced is the floor
\* of p/q and every later coefficient is strictly positive.
C4_FloorThenPositive ==
    (Exact(x) /\ call # "evaluate")
        => \A i \in 1..Len(cont_frac) :
              IF i = 1 THEN IsFloor(cont_frac[1], x.num, x.den)
              ELSE cont_frac[i] > 0

C4_Witness ==
    /\ call = "continued_fraction"
    /\ Exact(x) /\ x.den < 0 /\ x.num > 0
    /\ outcome = "returned"
    /\ Len(cont_frac) >= 3
    /\ cont_frac[1] < 0

\* The backward recurrence acc := 1 / (c + acc) on integer pairs a/b, from
\* the last coefficient down to the k-th, starting at 0/1: 1 / (c + a/b) is
\* b / (c*b + a), and the step fails when c*b + a is 0.
RECURSIVE Backward(_, _)
Backward(seq, k) ==
    IF k > Len(seq) THEN [ok |-> TRUE, a |-> 0, b |-> 1]
    ELSE LET r == Backward(seq, k + 1)
             s == seq[k] * r.b + r.a
         IN  IF ~r.ok \/ s = 0 THEN [ok |-> FALSE, a |-> 0, b |-> 1]
             ELSE [ok |-> TRUE, a |-> r.b, b |-> s]

\* C5: evaluate of the empty sequence is 0; otherwise it raises
\* ZeroDivisionError exactly when a step of the backward recurrence over the
\* non-leading coefficients meets coefficient + accumulator = 0 (so whenever
\* the last non-leading term is 0, and never for a single coefficient), and
\* else returns first coefficient + accumulator.
C5_EvaluateRecurrence ==
    (call = "evaluate" \/ (call = "continued_fraction" /\ result # NoResult))
        => IF Len(cont_frac) = 0 THEN result = [exc |-> "", val |-> Zero]
           ELSE LET r == Backward(cont_frac, 2)
                IN  /\ result.exc \in {"", "ZeroDivisionError"}
                    /\ (result.exc = "ZeroDivisionError") <=> ~r.ok
                    /\ r.ok => RatEq(result.val, cont_frac[1] * r.b + r.a, r.b)
                    /\ Len(cont_frac) = 1 => result.exc = ""
                    /\ (Len(cont_frac) >= 2 /\ cont_frac[Len(cont_frac)] = 0)
                          => result.exc = "ZeroDivisionError"

C5_Witness ==
    /\ call = "evaluate"
    /\ Len(cont_frac) = 4
    /\ cont_frac[1] = 0 /\ cont_frac[4] # 0 /\ cont_frac[2] < 0
    /\ result.exc = "ZeroDivisionError"

\* C6: when the list of an exact rational, run to its natural end, is
\* evaluated and continued_fraction is run on the value as a Fraction with
\* maxlen = len(list), the second run returns the same list.
C6_RoundTrip ==
    (/\ call = "roundtrip"
     /\ outcome # "running"
     /\ Exact(first.x)
     /\ NaturalEnd(first.gen))
        => /\ outcome = "returned"
           /\ cont_frac = first.cont_frac

C6_Witness ==
    /\ call = "roundtrip"
    /\ outcome = "returned"
    /\ first.x.kind = "tuple" /\ first.x.den < 0
    /\ NaturalEnd(first.gen)
    /\ Len(first.cont_frac) >= 3
    /\ cont_frac = first.cont_frac

\* The k-th pair yielded, and the pair before it: (1, 0) before the first.
PairAt(k) == IF k = 0 THEN <<1, 0>> ELSE pairs[k]

\* C7: every pair convergents yields is irreducible, and consecutive pairs
\* (the state (1, 0) standing before the first) have determinant +1 or -1.
C7_Irreducible ==
    InConvergents
        => \A k \in 1..Len(pairs) :
              /\ GCD(pairs[k][1], pairs[k][2]) = 1
              /\ Abs(pairs[k][1] * PairAt(k - 1)[2]
                       - PairAt(k - 1)[1] * pairs[k][2]) = 1

C7_Witness ==
    /\ call = "convergents"
    /\ Len(pairs) >= 4
    /\ Abs(pairs[4][2]) > 1 /\ Abs(pairs[4][1]) > 1
    /\ GCD(pairs[4][1], pairs[4][2]) = 1

\* list(g): the coefficients generator g yields until it ends.
RECURSIVE Drain(_)
Drain(g) ==
    LET r == GenNext(g)
    IN  IF r.how = "yield" THEN <<r.value>> \o Drain(r.gen) ELSE <<>>

C8_WitnessFull ==
    /\ call = "convergents"
    /\ outcome = "returned"
    /\ x.kind = "tuple"
    /\ Len(pairs) = limit + 1
    /\ limit = 2
    /\ gen.den # 0

\* A list(continued_fraction(...)) whose generator is __int_cont_frac.
IntRun ==
    /\ call \in {"continued_fraction", "roundtrip"}
    /\ gen.fn = "int_cont_frac"

\* C9: the exact-rational branch terminates.  It never yields more than
\* maxlen coefficients; it ends exactly when the running denominator is 0 or
\* maxlen terms have been produced, and yields one more term otherwise; an
\* integer input ends after exactly one term; and a running generator is
\* eventually exhausted.
C9_Terminates ==
    /\ [](IntRun => Len(cont_frac) <= limit /\ gen.amount = Len(cont_frac))
    /\ []((IntRun /\ outcome = "returned")
            => /\ gen.den = 0 \/ Len(cont_frac) = limit
               /\ x.kind = "int" => Len(cont_frac) = 1)
    /\ [][(IntRun /\ outcome = "running")
            => IF gen.den = 0 \/ Len(cont_frac) >= gen.max_amount
               THEN outcome' = "returned" /\ cont_frac' = cont_frac
               ELSE outcome' = "running"
                    /\ Len(cont_frac') = Len(cont_frac) + 1]_vars
    /\ (IntRun /\ outcome = "running") ~> (IntRun /\ outcome = "returned")

C9_Witness ==
    /\ IntRun
    /\ outcome = "returned"
    /\ x.kind = "tuple" /\ x.den # 0
    /\ gen.den = 0
    /\ Len(cont_frac) = 4
    /\ limit = 5

C9_WitnessCut ==
    /\ IntRun
    /\ outcome = "returned"
    /\ gen.den # 0
    /\ Len(cont_frac) = limit

\* C10: for an exact rational x the k-th pair (n, d) yielded has d # 0 and
\* n/d is what evaluate returns for the first k coefficients; and when the
\* coefficients ended naturally the last pair is x in lowest terms.
C10_PairsAreTruncations ==
    (InConvergents /\ Exact(x))
        => /\ \A k \in 1..Len(pairs) :
                LET e == evaluate(SubSeq(cont_frac, 1, k))
                IN  /\ pairs[k][2] # 0
                    /\ e.exc = ""
                    /\ RatEq(e.val, pairs[k][1], pairs[k][2])
           /\ (outcome = "returned" /\ NaturalEnd(gen) /\ Len(pairs) > 0)
                => LET last == pairs[Len(pairs)]
                   IN  /\ last[1] * x.den = x.num * last[2]
                       /\ GCD(last[1], last[2]) = 1

C10_Witness ==
    /\ call = "convergents"
    /\ outcome = "returned"
    /\ Exact(x) /\ x.kind = "tuple" /\ GCD(x.num, x.den) > 1 /\ x.den < 0
    /\ NaturalEnd(gen)
    /\ Len(pairs) >= 3
    /\ pairs[Len(pairs)][1] * x.den = x.num * pairs[Len(pairs)][2]

=============================================================================
